---- MODULE Spec2Model ----
(***************************************************************************)
(* tuplesaver (micro-namedtuple-sqlite-persister): the recursive save of   *)
(* NamedTuple rows into SQLite tables, and the global cache of model       *)
(* metadata.                                                               *)
(*                                                                         *)
(* The in-memory rows handed to engine.save are objects of a heap: two     *)
(* fields of a row may hold the very same object.  The models are the      *)
(* notebook's Band (scalar fields only) and BOM (two nullable references   *)
(* to BOM).  A row's fields are split into its id, its scalar values and   *)
(* its forward references, each kept in declaration order.                 *)
(***************************************************************************)
EXTENDS Integers, Sequences, FiniteSets, TLC

\* Bounds of the model.
MaxObj == 3
MaxResets == 1
MaxDepth == 4
MaxPath == 3
MaxScripts == 2

\* The id of a row that was never inserted (Python None in the id field).
NoId == 0

\* The save call: the rows in memory, the tables, the call in progress, the
\* statements executed so far, and what the call and a later find gave back.
VARIABLES heap, db, pc, deep, stack, log, result, err, found

\* The metadata cache: the declarations as they stand, the cache (_meta), the
\* get_or_build call in progress and its outcome; before, first and nbuilt
\* record the cache when the call began, the metadata each type's first call
\* returned and the number of builds of each type since the last reset.
VARIABLES decl, _meta, rpc, arg, ret, serial, resets, before, first, nbuilt

\* How the model of the call in progress is to be used: want is "table" when
\* the call comes from ensure_table_created.
VARIABLES want

\* The backpop edges resolved so far (backpop_edges), the resolve_backpop call
\* in progress (bpc, barg), its outcome (bret) and, for each (owner, field),
\* the serials at which its edge was worked out (resolutions).
VARIABLES backpop_edges, bpc, barg, bret, resolutions

\* Threads that call get_or_build at the same time: where each is (tpc), what
\* each returned (tret), and the holder of the lock of the cache (lock).
VARIABLES tpc, tret, lock

\* One query: whether it is open (qpc), its root model (qroot), the joins
\* emitted so far (plan), the path resolved last (qarg), the joins before
\* that (qbefore) and what resolving it gave (qret).
VARIABLES qpc, qroot, plan, qarg, qbefore, qret

pvars == <<heap, db, pc, deep, stack, log, result, err, found>>

bvars == <<backpop_edges, bpc, barg, bret, resolutions>>

tvars == <<tpc, tret, lock>>

\* Migrations: the script files (files), the _migrations table of the
\* working DB (applied) and its schema (schema), the reference DB (ref), the
\* schema the models ask for (models), the method called last (mop) and what
\* it gave (mret); of the dev workflow, where it is (dpc), the state it
\* checked before its last fix (dprev) and the restores it ran (drestores).
VARIABLES files, applied, schema, ref, models, mop, mret, dpc, dprev, drestores

qvars == <<qpc, qroot, plan, qarg, qbefore, qret>>

mvars == <<files, applied, schema, ref, models, mop, mret, dpc, dprev, drestores>>

\* What the metadata cache and its callers leave alone.
xvars == <<qvars, mvars>>

regvars == <<decl, _meta, rpc, arg, ret, serial, resets, before, first, nbuilt,
             want, bvars, tvars>>

rvars == <<regvars, xvars>>

vars == <<pvars, rvars>>

----------------------------------------------------------------------------
\* Python values and the rows of the notebook's models

\* A field that holds no related row.
None == [model |-> "NoneType"]

PyNone == <<"NoneType", "None">>

PyStr(s) == <<"str", s>>

PyBool(b) == <<"bool", IF b THEN "True" ELSE "False">>

PyFloat(t) == <<"float", t>>

TableModels == {"Band", "BOM"}

\* The declared types of a model's scalar columns, in declaration order.
ScalarTypes(m) ==
    IF m = "Band" THEN <<"str", "bool">> ELSE <<"str", "float">>

\* The number of forward-reference fields of a model.
FkCount(m) == IF m = "BOM" THEN 2 ELSE 0

is_registered_table_model(f) == f.model \in TableModels

----------------------------------------------------------------------------
\* Adapt/convert of scalar values

\* adapt with every bool stored as x01.
adapt_one_byte(v) ==
    CASE v[1] = "NoneType" -> <<"NULL", "">>
      [] v[1] = "bool" -> <<"BLOB", "x01">>
      [] v[1] = "float" -> <<"REAL", v[2]>>
      [] OTHER -> <<"TEXT", v[2]>>

adapt(v) ==
    CASE v[1] = "NoneType" -> <<"NULL", "">>
      [] v[1] = "bool" -> <<"BLOB", IF v[2] = "True" THEN "x01" ELSE "x00">>
      [] v[1] = "float" -> <<"REAL", v[2]>>
      [] OTHER -> <<"TEXT", v[2]>>

convert(type, cell) ==
    CASE cell[1] = "NULL" -> PyNone
      [] type = "bool" -> <<"bool", IF cell[2] = "x01" THEN "True" ELSE "False">>
      [] type = "float" -> <<"float", cell[2]>>
      [] OTHER -> <<"str", cell[2]>>

----------------------------------------------------------------------------
\* Helpers

Max(S) == CHOOSE x \in S : \A y \in S : y <= x

Top == stack[Len(stack)]

\* The object that a save call is made on: the last one built.
root == Len(heap)

\* The in-memory row value of an object, related rows nested.
RECURSIVE ToRow(_)
ToRow(o) ==
    IF o = 0 THEN None
    ELSE [model |-> heap[o].model, id |-> heap[o].id, vals |-> heap[o].vals,
          kids |-> [k \in DOMAIN heap[o].fks |-> ToRow(heap[o].fks[k])]]

\* FkCell that binds NULL for every related row.
FkCell_null(k) == NoId

\* What the adapter of a related row writes into the foreign-key column.
FkCell(k) == IF k = None THEN NoId ELSE k.id

\* The table row that a statement writes for an in-memory row.
Stored(row) ==
    [vals |-> [j \in DOMAIN row.vals |-> adapt(row.vals[j])],
     fks |-> [k \in DOMAIN row.kids |-> FkCell(row.kids[k])]]

lastrowid(table) == Max(DOMAIN table \cup {0}) + 1

----------------------------------------------------------------------------
\* Engine._insert_shallow and Engine.update_

_insert_shallow(table, row) ==
    LET new == lastrowid(table)
    IN  [table |-> [i \in DOMAIN table \cup {new} |->
                      IF i = new THEN Stored(row) ELSE table[i]],
         row |-> [row EXCEPT !.id = new]]

\* update_ whose statement has no WHERE clause.
update_all_rows(table, row) == [i \in DOMAIN table |-> Stored(row)]

update_(table, row) == [table EXCEPT ![row.id] = Stored(row)]

----------------------------------------------------------------------------
\* The rows and tables a save call can start from

BOMObject(o) ==
    { [model |-> "BOM", id |-> p[1], vals |-> <<PyStr(p[2]), PyFloat("0.5")>>,
       fks |-> <<a, b>>] :
        p \in {<<NoId, "new">>, <<o, "old">>, <<o, "new">>},
        a \in 0..(o - 1), b \in 0..(o - 1) }

BandObject ==
    { [model |-> "Band", id |-> i, vals |-> <<PyStr(s), PyBool(b)>>,
       fks |-> <<>>] :
        i \in {NoId, 1}, s \in {"old", "new"}, b \in BOOLEAN }

\* Rows are immutable tuples: a row can only hold rows built before it.
RECURSIVE Heaps(_)
Heaps(n) ==
    IF n = 0 THEN {<<>>}
    ELSE { Append(h, ob) : h \in Heaps(n - 1), ob \in BOMObject(n) }

\* The objects reachable from the objects S through forward references.
RECURSIVE Closure(_, _)
Closure(h, S) ==
    LET T == S \cup ({h[o].fks[k] : o \in S, k \in 1..2} \ {0})
    IN  IF T = S THEN S ELSE Closure(h, T)

\* The table row of an object that was loaded from the database.
InitialRow(h, o) ==
    [vals |-> <<adapt(PyStr("old")), adapt(PyFloat("0.5"))>>,
     fks |-> [k \in 1..2 |->
                IF h[o].fks[k] = 0 THEN NoId ELSE h[h[o].fks[k]].id]]

InitialBand == [vals |-> <<adapt(PyStr("old")), adapt(PyBool(TRUE))>>, fks |-> <<>>]

InitBOM ==
    \E n \in 1..MaxObj, lost \in SUBSET {1} :
        /\ heap \in {h \in Heaps(n) : Closure(h, {n}) = 1..n}
        /\ db = [Band |-> [i \in {1} |-> InitialBand],
                 BOM |-> [i \in (1..n) \ lost |-> InitialRow(heap, i)]]

InitBand ==
    \E lost \in SUBSET {1} :
        /\ heap \in {<<ob>> : ob \in BandObject}
        /\ db = [Band |-> [i \in {1} \ lost |-> InitialBand],
                 BOM |-> [i \in {} |-> InitialBand]]

InitSave ==
    /\ InitBOM \/ InitBand
    /\ pc = "idle"
    /\ deep = FALSE
    /\ stack = <<>>
    /\ log = <<>>
    /\ result = None
    /\ err = ""
    /\ found = None

----------------------------------------------------------------------------
\* Engine.save

\* A statement executed on the connection, with the number of rows it wrote.
Statement(op, o, row, n) ==
    [op |-> op, model |-> row.model, obj |-> o, id |-> row.id,
     fks |-> Stored(row).fks, rows |-> n]

\* save hands the saved row back: to the caller, or to the save of the row
\* that holds it, which goes on with its next field.
Return(saved) ==
    IF Len(stack) = 1
    THEN /\ stack' = <<>>
         /\ result' = saved
         /\ pc' = "done"
    ELSE LET up == stack[Len(stack) - 1]
         IN  /\ stack' = [SubSeq(stack, 1, Len(stack) - 1) EXCEPT
                             ![Len(stack) - 1] =
                                 [up EXCEPT !.i = up.i + 1,
                                            !.made = Append(up.made, saved)]]
             /\ result' = result
             /\ pc' = pc

Raise(e) ==
    /\ stack' = <<>>
    /\ err' = e
    /\ pc' = "done"

\* save(row, deep=True) is called on the root row.
save ==
    /\ pc = "idle"
    /\ deep' = TRUE
    /\ stack' = <<[obj |-> root, i |-> 1, made |-> <<>>]>>
    /\ pc' = "saving"
    /\ UNCHANGED <<rvars, heap, db, log, result, err, found>>

\* A row's fields are saved before the row: a field that holds a row of a
\* table model is saved by a nested call, any other field is kept.
all_fields_made(frame) == frame.i > FkCount(heap[frame.obj].model)

save_field ==
    /\ pc = "saving"
    /\ stack # <<>>
    /\ ~all_fields_made(Top)
    /\ LET f == heap[Top.obj].fks[Top.i]
       IN  IF f # 0 /\ is_registered_table_model(heap[f])
           THEN stack' = Append(stack, [obj |-> f, i |-> 1, made |-> <<>>])
           ELSE stack' = [stack EXCEPT ![Len(stack)] =
                             [Top EXCEPT !.i = Top.i + 1,
                                         !.made = Append(Top.made, ToRow(f))]]
    /\ UNCHANGED <<rvars, heap, db, pc, deep, log, result, err, found>>

\* The row that a save call writes once its fields are saved.
MadeRow(frame) ==
    [model |-> heap[frame.obj].model, id |-> heap[frame.obj].id,
     vals |-> heap[frame.obj].vals, kids |-> frame.made]

\* id_is_none that asks the table instead of the row (an upsert).
id_has_no_row(row) == row.id \notin DOMAIN db[row.model]

\* id_is_none that holds of every row (the recursive insert save replaced).
id_ignored(row) == TRUE

\* row[0] is None
id_is_none(row) == row.id = NoId

write_insert ==
    /\ pc = "saving"
    /\ stack # <<>>
    /\ all_fields_made(Top)
    /\ id_is_none(MadeRow(Top))
    /\ LET row == MadeRow(Top)
           r == _insert_shallow(db[row.model], row)
       IN  /\ db' = [db EXCEPT ![row.model] = r.table]
           /\ log' = Append(log, Statement("insert", Top.obj, r.row, 1))
           /\ Return(r.row)
    /\ UNCHANGED <<rvars, heap, deep, err, found>>

write_update ==
    /\ pc = "saving"
    /\ stack # <<>>
    /\ all_fields_made(Top)
    /\ ~id_is_none(MadeRow(Top))
    /\ MadeRow(Top).id \in DOMAIN db[MadeRow(Top).model]
    /\ LET row == MadeRow(Top)
       IN  /\ db' = [db EXCEPT ![row.model] = update_(db[row.model], row)]
           /\ log' = Append(log, Statement("update", Top.obj, row, 1))
           /\ Return(row)
    /\ UNCHANGED <<rvars, heap, deep, err, found>>

\* An update of an id that no row has writes nothing and raises.
update_raises ==
    /\ pc = "saving"
    /\ stack # <<>>
    /\ all_fields_made(Top)
    /\ ~id_is_none(MadeRow(Top))
    /\ MadeRow(Top).id \notin DOMAIN db[MadeRow(Top).model]
    /\ log' = Append(log, Statement("update", Top.obj, MadeRow(Top), 0))
    /\ Raise("IdNoRowError")
    /\ UNCHANGED <<rvars, heap, db, deep, result, found>>

\* connection.execute raises, and save takes the row as written and goes on.
execute_raises_and_goes_on ==
    /\ pc = "saving"
    /\ stack # <<>>
    /\ all_fields_made(Top)
    /\ err = ""
    /\ err' = "sqlite3.Error"
    /\ Return(MadeRow(Top))
    /\ UNCHANGED <<rvars, heap, db, deep, log, found>>

\* connection.execute raises on the statement of a row: nothing is written,
\* and the error leaves every save call under way, none of which catches it.
execute_raises ==
    /\ pc = "saving"
    /\ stack # <<>>
    /\ all_fields_made(Top)
    /\ Raise("sqlite3.Error")
    /\ UNCHANGED <<rvars, heap, db, deep, log, result, found>>

\* relations_persisted that lets every row through.
relations_unchecked(o) == TRUE

\* save(row, deep=False): the row alone is written, and only when every
\* related row it holds is persisted.
relations_persisted(o) ==
    \A k \in DOMAIN heap[o].fks :
        heap[o].fks[k] # 0 => heap[heap[o].fks[k]].id # NoId

save_shallow ==
    /\ pc = "idle"
    /\ deep' = FALSE
    /\ IF relations_persisted(root)
       THEN /\ stack' = <<[obj |-> root, i |-> FkCount(heap[root].model) + 1,
                           made |-> ToRow(root).kids]>>
            /\ pc' = "saving"
            /\ err' = err
       ELSE Raise("UnpersistedRelationError")
    /\ UNCHANGED <<rvars, heap, db, log, result, found>>

----------------------------------------------------------------------------
\* Engine.find and the recursive load of a row

RECURSIVE load(_, _, _)
load(m, id, fuel) ==
    IF id = NoId \/ id \notin DOMAIN db[m] \/ fuel = 0 THEN None
    ELSE [model |-> m, id |-> id,
          vals |-> [j \in DOMAIN db[m][id].vals |->
                      convert(ScalarTypes(m)[j], db[m][id].vals[j])],
          kids |-> [k \in DOMAIN db[m][id].fks |->
                      load(m, db[m][id].fks[k], fuel - 1)]]

\* engine.find(Model, row.id) with the row that save returned.
find ==
    /\ pc = "done"
    /\ err = ""
    /\ pc' = "found"
    /\ IF result.id \in DOMAIN db[result.model]
       THEN /\ found' = load(result.model, result.id,
                             Cardinality(DOMAIN db[result.model]))
            /\ err' = err
       ELSE /\ found' = found
            /\ err' = "RecordNotFoundError"
    /\ UNCHANGED <<rvars, heap, db, deep, stack, log, result>>

----------------------------------------------------------------------------
\* The global cache of model metadata

Types == {"Band", "BOM"}

NoMeta == [type |-> "NoneType"]

Field(name, type) == <<name, type>>

\* The declarations a type can have.
Declarations ==
    { <<Field("id", "int|None"), Field("name", "str")>>,
      <<Field("id", "int|None"), Field("name", "str|None")>>,
      <<Field("name", "str"), Field("id", "int|None")>>,
      <<Field("name", "str")>> }

\* TypeReflector: the ordered field list of the type as declared now.
reflect(t) == decl[t]

has_id(fields) == \E j \in DOMAIN fields : fields[j][1] = "id"

\* A model with an id maps to a table; one without only shapes query results.
classify(fields) == IF has_id(fields) THEN "table" ELSE "adhoc"

\* The models of the backpop notes: Employee and Project are backed by
\* tables; Employee_Names follows the naming of the models that are not
\* (BOM_ChildrenAsId).
RelTypes == {"Employee", "Project", "Employee_Names"}

\* The models of the first example of the notes: Team holds lists of Person.
TeamTypes == {"Team", "Person"}

\* The models of the queries of the notebook.
QueryTypes == {"Athlete", "Team", "League"}

Models == Types \cup RelTypes \cup TeamTypes \cup QueryTypes

\* The members of a declared type (a union lists several).
union_members(T) ==
    CASE T = "int|None" -> {"int", "None"}
      [] T = "str|None" -> {"str", "None"}
      [] T = "Employee|None" -> {"Employee", "None"}
      [] T = "Project|None" -> {"Project", "None"}
      [] T = "Employee|int" -> {"Employee", "int"}
      [] T = "Employee|int|None" -> {"Employee", "int", "None"}
      [] OTHER -> {T}

\* unwrap_optional_type: whether None is a member, and the members left.
unwrap_optional_type(T) ==
    <<"None" \in union_members(T), union_members(T) \ {"None"}>>

\* The element type of a list type, "" for any other type.
list_of(T) ==
    CASE T = "list[Project]" -> "Project"
      [] T = "list[Employee]" -> "Employee"
      [] T = "list[Person]" -> "Person"
      [] OTHER -> ""

\* The models a field's type names: the field is then a forward reference.
related_models(T) == unwrap_optional_type(T)[2] \cap Models

is_forward(f) == related_models(f[2]) # {}

is_backpop(f) == list_of(f[2]) \in Models

\* The related model of a forward reference.
related(f) == CHOOSE m \in related_models(f[2]) : TRUE

\* The letters of a field name, in the pieces the names here are made of.
spell(name) ==
    CASE name = "manager_of" -> <<"manager", "_of">>
      [] name = "lead_of" -> <<"lead", "_of">>
      [] name = "lead_developer" -> <<"lead", "_developer">>
      [] name = "lead_developer_of" -> <<"lead", "_developer", "_of">>
      [] name = "projects" -> <<"project", "s">>
      [] name = "primary_teams" -> <<"primary_team", "s">>
      [] name = "secondary_teams" -> <<"secondary_team", "s">>
      [] OTHER -> <<name>>

\* startswith that holds of equal names only.
startswith_whole(name, prefix) == name = prefix

\* name.startswith(prefix)
startswith(name, prefix) ==
    /\ Len(spell(prefix)) <= Len(spell(name))
    /\ SubSeq(spell(name), 1, Len(spell(prefix))) = spell(prefix)

\* valid_id that accepts any id field.
valid_id_unchecked(fields) == TRUE

\* The id field is first and a nullable integer.
valid_id(fields) ==
    has_id(fields) => fields[1] = Field("id", "int|None")

\* is_cached that never finds the type.
is_cached_never(t) == FALSE

\* conflicts that never sees a difference.
conflicts_never(t, fields) == FALSE

is_cached(t) == t \in DOMAIN _meta

conflicts(t, fields) == _meta[t].fields # fields

\* A model named after a table model and an underscore is backed by a view.
is_alt_name(t) == t \in {"Employee_Names"}

kind_of(t, fields) ==
    IF is_alt_name(t) /\ has_id(fields) THEN "alt" ELSE classify(fields)

\* The kind of a model that a field names.
related_kind(r) ==
    IF is_cached(r) THEN _meta[r].kind ELSE kind_of(r, reflect(r))

\* valid_foreign_key that takes any union with the related model.
valid_foreign_key_any_union(f) == TRUE

\* A forward reference is the related model, or that model or None.
valid_foreign_key(f) == unwrap_optional_type(f[2])[2] = {related(f)}

\* references_table that takes a model of any kind.
references_any_kind(f) == TRUE

\* The model a forward reference names is backed by a table.
references_table(f) == related_kind(related(f)) = "table"

\* ambiguous_forward that compares nothing.
ambiguous_forward_unchecked(fields) == FALSE

\* No foreign key may be a subset of another foreign key of the model.
ambiguous_forward(fields) ==
    \E i \in DOMAIN fields, j \in DOMAIN fields :
        /\ i # j
        /\ is_forward(fields[i]) /\ is_forward(fields[j])
        /\ startswith(fields[j][1], fields[i][1])

\* The checks of a model at registration: the error raised, "" for none.
validate(t, fields) ==
    IF ~valid_id(fields) THEN "InvalidIdentifierFieldError"
    ELSE IF \E j \in DOMAIN fields :
                is_forward(fields[j]) /\ ~valid_foreign_key(fields[j])
    THEN "InvalidForeignKeyUnionError"
    ELSE IF /\ kind_of(t, fields) = "table"
            /\ \E j \in DOMAIN fields :
                  is_forward(fields[j]) /\ ~references_table(fields[j])
    THEN "NonTableForeignKeyError"
    ELSE IF ambiguous_forward(fields) THEN "AmbiguousForwardReferenceError"
    ELSE ""

\* The models the forward references of a model name, in field order.
forward_models(fields) ==
    LET fw == SelectSeq(fields, is_forward)
    IN  [k \in 1..Len(fw) |-> related(fw[k])]

\* in_progress that forgets the mark.
in_progress_unmarked(t, building) == FALSE

\* A model whose build has begun and not ended is marked in progress.
in_progress(t, building) == t \in building

\* The build of a model builds, before it ends, the models that its forward
\* references name and that are neither cached nor in progress.  started
\* lists the builds begun, done the models built.
RECURSIVE visit(_, _, _, _)
RECURSIVE visit_all(_, _, _, _)
visit(t, building, acc, fuel) ==
    IF acc.err # "" \/ t \in acc.done \/ is_cached(t) \/ in_progress(t, building)
    THEN acc
    ELSE IF fuel = 0 THEN [acc EXCEPT !.err = "RecursionError"]
    ELSE LET e == validate(t, reflect(t))
         IN  IF e # "" THEN [acc EXCEPT !.err = e]
             ELSE LET sub == visit_all(forward_models(reflect(t)),
                                       building \cup {t},
                                       [acc EXCEPT !.started = Append(@, t)],
                                       fuel - 1)
                  IN  IF sub.err # "" THEN sub
                      ELSE [sub EXCEPT !.done = @ \cup {t}]

visit_all(refs, building, acc, fuel) ==
    IF refs = <<>> THEN acc
    ELSE visit_all(Tail(refs), building,
                   visit(Head(refs), building, acc, fuel), fuel)

\* What is derived of a field: whether it may be None, and its role.
field_spec(f) ==
    [name |-> f[1],
     nullable |-> unwrap_optional_type(f[2])[1],
     role |-> IF is_forward(f) THEN "forward-reference"
              ELSE IF is_backpop(f) THEN "backpop" ELSE "scalar"]

build(t, fields) ==
    [type |-> t, kind |-> kind_of(t, fields), fields |-> fields,
     specs |-> [j \in DOMAIN fields |-> field_spec(fields[j])],
     serial |-> serial + 1]

\* The metadata of the k-th model built by one call.
built(started, t) ==
    [build(t, reflect(t)) EXCEPT
        !.serial = serial + CHOOSE k \in DOMAIN started :
                                /\ started[k] = t
                                /\ \A j \in 1..(k - 1) : started[j] # t]

\* stored that keeps the metadata of every build begun, ended or not.
stored_in_progress(r) == {r.started[k] : k \in DOMAIN r.started}

\* The models a call stores: those it built, none when the build failed, the
\* metadata in progress being dropped with it.
stored(r) == IF r.err = "" THEN r.done ELSE {}

\* The type of a field of a cached model.
field_type(owner, field) ==
    LET j == CHOOSE j \in DOMAIN _meta[owner].fields :
                 _meta[owner].fields[j][1] = field
    IN  _meta[owner].fields[j][2]

\* candidates that takes the forward references to any model.
candidates_any_type(owner, target) ==
    { _meta[target].fields[j][1] : j \in
        {j \in DOMAIN _meta[target].fields : is_forward(_meta[target].fields[j])} }

\* The forward references of target that name owner (or owner | None).
candidates(owner, target) ==
    { _meta[target].fields[j][1] : j \in
        {j \in DOMAIN _meta[target].fields :
            /\ is_forward(_meta[target].fields[j])
            /\ related(_meta[target].fields[j]) = owner} }

\* matching that takes every candidate, whatever its name.
matching_any_name(field, cands) == cands

\* The backpop must include the full name of the forward reference as the
\* prefix of its name.
matching(field, cands) == {c \in cands : startswith(field, c)}

\* resolve that takes the candidate declared first, whatever the names.
resolve_first_declared(owner, field) ==
    LET target == list_of(field_type(owner, field))
        fields == _meta[target].fields
        c == candidates(owner, target)
    IN  IF c = {} THEN [err |-> "AmbiguousBackpopError", edge |-> <<>>]
        ELSE [err |-> "",
              edge |-> <<target,
                         fields[CHOOSE j \in DOMAIN fields :
                                   /\ fields[j][1] \in c
                                   /\ \A i \in 1..(j - 1) : fields[i][1] \notin c][1]>>]

\* If this is not specified or not unique, AmbiguousBackpopError.
resolve(owner, field) ==
    LET target == list_of(field_type(owner, field))
        m == matching(field, candidates(owner, target))
    IN  IF Cardinality(m) = 1
        THEN [err |-> "", edge |-> <<target, CHOOSE c \in m : TRUE>>]
        ELSE [err |-> "AmbiguousBackpopError", edge |-> <<>>]

\* is_resolved that never finds the edge.
is_resolved_never(key) == FALSE

\* The forward and backpop relations of a model are cached.
is_resolved(key) == key \in DOMAIN backpop_edges

\* resolve_backpop(owner, field) is called, both models being registered.
call_resolve_backpop(owner, field) ==
    /\ bpc # "called"
    /\ owner \in DOMAIN _meta
    /\ \E j \in DOMAIN _meta[owner].fields :
          /\ _meta[owner].fields[j][1] = field
          /\ is_backpop(_meta[owner].fields[j])
          /\ list_of(_meta[owner].fields[j][2]) \in DOMAIN _meta
    /\ bpc' = "called"
    /\ barg' = <<owner, field>>
    /\ UNCHANGED <<pvars, xvars, tvars, decl, _meta, rpc, arg, ret, serial, resets,
                   before, first, nbuilt, want, backpop_edges, bret, resolutions>>

resolve_backpop ==
    /\ bpc = "called"
    /\ bpc' = "returned"
    /\ IF is_resolved(barg)
       THEN /\ bret' = [err |-> "", edge |-> backpop_edges[barg],
                        hit |-> TRUE, at |-> serial]
            /\ UNCHANGED <<backpop_edges, resolutions>>
       ELSE LET r == resolve(barg[1], barg[2])
            IN  /\ bret' = [err |-> r.err, edge |-> r.edge,
                            hit |-> FALSE, at |-> serial]
                /\ IF r.err = ""
                   THEN /\ backpop_edges' =
                              [k \in DOMAIN backpop_edges \cup {barg} |->
                                  IF k = barg THEN r.edge ELSE backpop_edges[k]]
                        /\ resolutions' =
                              [k \in DOMAIN resolutions \cup {barg} |->
                                  IF k \in DOMAIN resolutions
                                  THEN IF k = barg
                                       THEN Append(resolutions[k], serial)
                                       ELSE resolutions[k]
                                  ELSE <<serial>>]
                   ELSE UNCHANGED <<backpop_edges, resolutions>>
    /\ UNCHANGED <<pvars, xvars, tvars, decl, _meta, rpc, arg, ret, serial, resets,
                   before, first, nbuilt, want, barg>>

\* The threads that share the cache.
Threads == {"t1", "t2"}

\* No table is being ensured, no backpop resolved and no thread under way.
InitIdle ==
    /\ want = "any"
    /\ backpop_edges = <<>>
    /\ bpc = "idle"
    /\ barg = <<"", "">>
    /\ bret = [err |-> "", edge |-> <<>>, hit |-> FALSE, at |-> 0]
    /\ resolutions = <<>>
    /\ tpc = [th \in Threads |-> "idle"]
    /\ tret = [th \in Threads |-> NoMeta]
    /\ lock = ""
    /\ qpc = "closed"
    /\ qroot = ""
    /\ plan = <<>>
    /\ qarg = [start |-> "", names |-> <<>>]
    /\ qbefore = <<>>
    /\ qret = [err |-> "", steps |-> <<>>, column |-> <<>>]

\* No script, an empty working DB without reference, and no method called.
InitNoMigration ==
    /\ files = {}
    /\ applied = <<>>
    /\ schema = "s0"
    /\ ref = [exists |-> FALSE, applied |-> <<>>]
    /\ models = "s0"
    /\ mop = ""
    /\ mret = ""
    /\ dpc = "idle"
    /\ dprev = ""
    /\ drestores = [scripts |-> 0, db |-> 0]

InitRegistry ==
    /\ decl \in [Types -> Declarations]
    /\ _meta = [t \in {} |-> NoMeta]
    /\ rpc = "idle"
    /\ arg = "Band"
    /\ ret = [err |-> "", meta |-> NoMeta]
    /\ serial = 0
    /\ resets = 0
    /\ before = [t \in {} |-> NoMeta]
    /\ first = [t \in Types |-> NoMeta]
    /\ nbuilt = [t \in Types |-> 0]
    /\ InitIdle
    /\ InitNoMigration

\* get_or_build(t) is called.
call_get_or_build(t) ==
    /\ rpc # "called"
    /\ rpc' = "called"
    /\ arg' = t
    /\ before' = _meta
    /\ want' = "any"
    /\ UNCHANGED <<pvars, xvars, bvars, tvars, decl, _meta, ret, serial, resets, first, nbuilt>>

get_or_build ==
    /\ rpc = "called"
    /\ rpc' = "returned"
    /\ LET fields == reflect(arg)
           r == visit(arg, {}, [err |-> "", started |-> <<>>, done |-> {}],
                      MaxDepth)
       IN  IF want = "table" /\ ~has_id(fields)
           THEN /\ ret' = [err |-> "InvalidIdentifierFieldError", meta |-> NoMeta]
                /\ UNCHANGED <<_meta, serial, first, nbuilt>>
           ELSE IF is_cached(arg)
           THEN /\ ret' = IF conflicts(arg, fields)
                          THEN [err |-> "RegistrationConflictError", meta |-> NoMeta]
                          ELSE [err |-> "", meta |-> _meta[arg]]
                /\ UNCHANGED <<_meta, serial, first, nbuilt>>
           ELSE /\ _meta' = [t \in DOMAIN _meta \cup stored(r) |->
                               IF t \in stored(r) THEN built(r.started, t)
                               ELSE _meta[t]]
                /\ first' = [t \in DOMAIN first |->
                                IF t \in stored(r) /\ first[t] = NoMeta
                                THEN built(r.started, t) ELSE first[t]]
                /\ IF r.err # ""
                   THEN /\ ret' = [err |-> r.err, meta |-> NoMeta]
                        /\ UNCHANGED <<serial, nbuilt>>
                   ELSE /\ ret' = [err |-> "", meta |-> built(r.started, arg)]
                        /\ serial' = serial + Len(r.started)
                        /\ nbuilt' = [t \in DOMAIN nbuilt |->
                                        nbuilt[t] + Cardinality(
                                            {k \in DOMAIN r.started :
                                                r.started[k] = t})]
    /\ UNCHANGED <<pvars, xvars, want, bvars, tvars, decl, arg, resets, before>>

\* ensure_table_created(t): the model is registered to back a table.
ensure_table_created(t) ==
    /\ rpc # "called"
    /\ rpc' = "called"
    /\ arg' = t
    /\ before' = _meta
    /\ want' = "table"
    /\ UNCHANGED <<pvars, xvars, bvars, tvars, decl, _meta, ret, serial, resets, first, nbuilt>>

\* The declaration of a type changes under the cache.
redeclare(t, d) ==
    /\ rpc # "called"
    /\ d # decl[t]
    /\ decl' = [decl EXCEPT ![t] = d]
    /\ rpc' = "idle"
    /\ UNCHANGED <<pvars, xvars, want, bvars, tvars, _meta, arg, ret, serial, resets, before, first, nbuilt>>

\* The cache is reset as a unit.
reset ==
    /\ rpc # "called"
    /\ resets < MaxResets
    /\ resets' = resets + 1
    /\ _meta' = [t \in {} |-> NoMeta]
    /\ first' = [t \in Types |-> NoMeta]
    /\ nbuilt' = [t \in Types |-> 0]
    /\ rpc' = "idle"
    /\ UNCHANGED <<pvars, xvars, want, bvars, tvars, decl, arg, ret, serial, before>>

----------------------------------------------------------------------------
\* The specifications

\* The save calls, with the metadata cache left alone.
Init ==
    /\ InitSave
    /\ decl = [t \in Types |-> <<Field("id", "int|None"), Field("name", "str")>>]
    /\ _meta = [t \in {} |-> NoMeta]
    /\ rpc = "idle"
    /\ arg = "Band"
    /\ ret = [err |-> "", meta |-> NoMeta]
    /\ serial = 0
    /\ resets = 0
    /\ before = [t \in {} |-> NoMeta]
    /\ first = [t \in Types |-> NoMeta]
    /\ nbuilt = [t \in Types |-> 0]
    /\ InitIdle
    /\ InitNoMigration

Next ==
    \/ save
    \/ save_shallow
    \/ save_field
    \/ write_insert
    \/ write_update
    \/ update_raises
    \/ find

Spec == Init /\ [][Next]_vars

\* The save calls on a connection whose statements may fail.
NextFail ==
    \/ Next
    \/ execute_raises

SpecFail == Init /\ [][NextFail]_vars

\* The metadata cache, with no save call.
InitMeta ==
    /\ InitRegistry
    /\ heap = <<>>
    /\ db = [Band |-> [i \in {} |-> InitialBand], BOM |-> [i \in {} |-> InitialBand]]
    /\ pc = "idle"
    /\ deep = FALSE
    /\ stack = <<>>
    /\ log = <<>>
    /\ result = None
    /\ err = ""
    /\ found = None

NextMeta ==
    \/ \E t \in Types : call_get_or_build(t)
    \/ get_or_build
    \/ \E t \in Types, d \in Declarations : redeclare(t, d)
    \/ reset

SpecMeta == InitMeta /\ [][NextMeta]_vars

\* The save calls on rows that come back to a row already on the way: a row
\* holds, directly or through other rows, a row that carries its own id (as
\* A -> B -> C -> A in the tables, handed to save as an in-memory tree).
RepeatObject(o) ==
    { [model |-> "BOM", id |-> i, vals |-> <<PyStr(n), PyFloat("0.5")>>,
       fks |-> <<a, b>>] :
        i \in 0..(MaxObj - 1), n \in {"old", "new"},
        a \in 0..(o - 1), b \in 0..(o - 1) }

\* Object o holds, at some depth, a row with the id of o.
Revisited(h, o) ==
    /\ h[o].id # NoId
    /\ \E d \in Closure(h, {h[o].fks[k] : k \in 1..2} \ {0}) : h[d].id = h[o].id

RECURSIVE RepeatHeaps(_)
RepeatHeaps(n) ==
    IF n = 0 THEN {<<>>}
    ELSE { Append(h, ob) : h \in RepeatHeaps(n - 1), ob \in RepeatObject(n) }

\* A table row before the call.
RepeatRow == [vals |-> <<adapt(PyStr("old")), adapt(PyFloat("0.5"))>>,
              fks |-> <<NoId, NoId>>]

InitCycle ==
    /\ \E lost \in SUBSET {1} :
        /\ heap \in {h \in RepeatHeaps(MaxObj) :
                        /\ Closure(h, {MaxObj}) = 1..MaxObj
                        /\ \E o \in 1..MaxObj : Revisited(h, o)}
        /\ db = [Band |-> [i \in {1} |-> InitialBand],
                 BOM |-> [i \in (1..(MaxObj - 1)) \ lost |-> RepeatRow]]
    /\ pc = "idle"
    /\ deep = FALSE
    /\ stack = <<>>
    /\ log = <<>>
    /\ result = None
    /\ err = ""
    /\ found = None
    /\ decl = [t \in Types |-> <<Field("id", "int|None"), Field("name", "str")>>]
    /\ _meta = [t \in {} |-> NoMeta]
    /\ rpc = "idle"
    /\ arg = "Band"
    /\ ret = [err |-> "", meta |-> NoMeta]
    /\ serial = 0
    /\ resets = 0
    /\ before = [t \in {} |-> NoMeta]
    /\ first = [t \in Types |-> NoMeta]
    /\ nbuilt = [t \in Types |-> 0]
    /\ InitIdle
    /\ InitNoMigration

NextCycle ==
    \/ save
    \/ save_field
    \/ write_insert
    \/ write_update
    \/ update_raises

SpecCycle == InitCycle /\ [][NextCycle]_vars

----------------------------------------------------------------------------
\* The registration of models that refer to each other

\* A table model begins with its id and a name.
IdHead == <<Field("id", "int|None"), Field("name", "str")>>

NotAbsent(f) == f[2] # ""

\* Employee: the backpop fields and the forward references it may declare,
\* and the declarations whose id is missing, misplaced or mistyped.
EmployeeDeclarations ==
    { <<Field("name", "str")>>,
      <<Field("name", "str"), Field("id", "int|None")>>,
      <<Field("id", "int"), Field("name", "str")>> }
    \cup
    { IdHead \o b \o f :
        b \in {<<>>, <<Field("manager_of", "list[Project]"),
                      Field("lead_developer_of", "list[Project]")>>}
              \cup {<<Field(n, "list[Project]")>> :
                      n \in {"manager_of", "lead_of", "lead_developer_of", "projects"}},
        f \in {<<>>, <<Field("mentor", "Employee|None")>>,
               <<Field("project", "Project|None")>>} }

\* Project: forward references to Employee under the names of the notes.
ProjectDeclarations ==
    { IdHead \o SelectSeq(<<Field("manager", m), Field("lead", l),
                            Field("lead_developer", d)>>, NotAbsent) :
        m \in {"", "Employee", "Employee|None", "Employee|int",
                "Employee|int|None", "Employee_Names"},
        l \in {"", "Employee"},
        d \in {"", "Employee", "Employee|None"} }

\* Employee_Names: with the id of Employee, or with no id at all.
EmployeeNamesDeclarations == {IdHead, <<Field("name", "str")>>}

InitRel ==
    /\ decl \in { [Employee |-> e, Project |-> p, Employee_Names |-> n] :
                    e \in EmployeeDeclarations, p \in ProjectDeclarations,
                    n \in EmployeeNamesDeclarations }
    /\ _meta = <<>>
    /\ rpc = "idle"
    /\ arg = "Employee"
    /\ ret = [err |-> "", meta |-> NoMeta]
    /\ serial = 0
    /\ resets = 0
    /\ before = <<>>
    /\ first = [t \in RelTypes |-> NoMeta]
    /\ nbuilt = [t \in RelTypes |-> 0]
    /\ InitIdle
    /\ InitNoMigration
    /\ heap = <<>>
    /\ db = [Band |-> <<>>, BOM |-> <<>>]
    /\ pc = "idle"
    /\ deep = FALSE
    /\ stack = <<>>
    /\ log = <<>>
    /\ result = None
    /\ err = ""
    /\ found = None

NextRel ==
    \/ \E t \in RelTypes : call_get_or_build(t)
    \/ \E t \in RelTypes : ensure_table_created(t)
    \/ get_or_build

SpecRel == InitRel /\ [][NextRel]_vars

\* The resolution of backpop fields: Employee holds lists of Project, and
\* Project refers to Employee, or to itself, under the names of the notes.
BackpopEmployeeDeclarations ==
    { IdHead \o b :
        b \in {<<>>, <<Field("manager_of", "list[Project]"),
                      Field("lead_developer_of", "list[Project]")>>}
              \cup {<<Field(n, "list[Project]")>> :
                      n \in {"manager_of", "lead_of", "lead_developer_of", "projects"}} }

BackpopProjectDeclarations ==
    { IdHead \o SelectSeq(<<Field("manager", m), Field("lead", l),
                            Field("lead_developer", d)>>, NotAbsent) :
        m \in {"", "Employee", "Employee|None", "Project|None"},
        l \in {"", "Employee"},
        d \in {"", "Employee", "Employee|None"} }

InitBackpop ==
    /\ decl \in { [Employee |-> e, Project |-> p, Employee_Names |-> IdHead] :
                    e \in BackpopEmployeeDeclarations,
                    p \in BackpopProjectDeclarations }
    /\ _meta = <<>>
    /\ rpc = "idle"
    /\ arg = "Employee"
    /\ ret = [err |-> "", meta |-> NoMeta]
    /\ serial = 0
    /\ resets = 0
    /\ before = <<>>
    /\ first = [t \in RelTypes |-> NoMeta]
    /\ nbuilt = [t \in RelTypes |-> 0]
    /\ InitIdle
    /\ InitNoMigration
    /\ heap = <<>>
    /\ db = [Band |-> <<>>, BOM |-> <<>>]
    /\ pc = "idle"
    /\ deep = FALSE
    /\ stack = <<>>
    /\ log = <<>>
    /\ result = None
    /\ err = ""
    /\ found = None

NextBackpop ==
    \/ \E t \in RelTypes : call_get_or_build(t)
    \/ get_or_build
    \/ \E t \in RelTypes, f \in {"manager_of", "lead_of", "lead_developer_of", "projects"} :
          call_resolve_backpop(t, f)
    \/ resolve_backpop

SpecBackpop == InitBackpop /\ [][NextBackpop]_vars

----------------------------------------------------------------------------
\* The first example of the notes, with the fields of each model declared in
\* either order and the two models registered in either order.
TeamDeclarations ==
    { IdHead \o <<Field(n[1], "list[Person]"), Field(n[2], "list[Person]")>> :
        n \in {<<"primary_teams", "secondary_teams">>,
                <<"secondary_teams", "primary_teams">>} }

PersonDeclarations ==
    { IdHead \o <<Field(n[1], "Team"), Field(n[2], "Team")>> :
        n \in {<<"primary_team", "secondary_team">>,
                <<"secondary_team", "primary_team">>} }

InitTeam ==
    /\ decl \in { [Team |-> t, Person |-> p] :
                    t \in TeamDeclarations, p \in PersonDeclarations }
    /\ _meta = <<>>
    /\ rpc = "idle"
    /\ arg = "Team"
    /\ ret = [err |-> "", meta |-> NoMeta]
    /\ serial = 0
    /\ resets = 0
    /\ before = <<>>
    /\ first = [t \in TeamTypes |-> NoMeta]
    /\ nbuilt = [t \in TeamTypes |-> 0]
    /\ InitIdle
    /\ InitNoMigration
    /\ heap = <<>>
    /\ db = [Band |-> <<>>, BOM |-> <<>>]
    /\ pc = "idle"
    /\ deep = FALSE
    /\ stack = <<>>
    /\ log = <<>>
    /\ result = None
    /\ err = ""
    /\ found = None

NextTeam ==
    \/ \E t \in TeamTypes : call_get_or_build(t)
    \/ get_or_build
    \/ \E f \in {"primary_teams", "secondary_teams"} :
          call_resolve_backpop("Team", f)
    \/ resolve_backpop

SpecTeam == InitTeam /\ [][NextTeam]_vars

----------------------------------------------------------------------------
\* Queries: the paths of a query are resolved one after the other against the
\* root model of the query, and share the joins of the query.

\* The field names the paths are made of.
Names == {"name", "team", "teamname", "league", "leaguename"}

\* The model a forward-reference field of m refers to, "" if name is no
\* forward-reference field of m.
forward_target(m, name) ==
    LET fields == reflect(m)
        hit == {j \in DOMAIN fields : fields[j][1] = name /\ is_forward(fields[j])}
    IN  IF hit = {} THEN "" ELSE related(fields[CHOOSE j \in hit : TRUE])

\* The model reached from the root after the first i names, "" if some name on
\* the way is no forward-reference field.
RECURSIVE model_at(_, _, _)
model_at(base, names, i) ==
    IF i = 0 THEN base
    ELSE LET m == model_at(base, names, i - 1)
         IN  IF m = "" THEN "" ELSE forward_target(m, names[i])

\* The path starts at the root model of the query.
rooted_anywhere(base, start) == TRUE

rooted(base, start) == start = base

\* Every name but the last is a forward reference, the last a field.
valid_path_unchecked(start, names) == names # <<>>

valid_path(start, names) ==
    /\ names # <<>>
    /\ model_at(start, names, Len(names) - 1) # ""
    /\ \E j \in DOMAIN reflect(model_at(start, names, Len(names) - 1)) :
          reflect(model_at(start, names, Len(names) - 1))[j][1] = names[Len(names)]

\* The join steps of a path: one for every name, the last included.
hops_with_terminal(start, names) ==
    [i \in 1..Len(names) |->
        [prefix |-> SubSeq(names, 1, i), table |-> model_at(start, names, i)]]

\* The join steps of a path: one for every name but the last, each known by
\* the names up to it.
hops(start, names) ==
    [i \in 1..(Len(names) - 1) |->
        [prefix |-> SubSeq(names, 1, i), table |-> model_at(start, names, i)]]

\* merge that emits every step again.
merge_all(joins, steps) == joins \o steps

\* The joins of the query after a path: the steps not emitted yet are added.
merge(joins, steps) ==
    joins \o SelectSeq(steps, LAMBDA st : \A k \in DOMAIN joins : joins[k] # st)

\* select(base): a query on the root model base is begun.
select(base) ==
    /\ qpc' = "open"
    /\ qroot' = base
    /\ plan' = <<>>
    /\ qarg' = [start |-> "", names |-> <<>>]
    /\ qbefore' = <<>>
    /\ qret' = [err |-> "", steps |-> <<>>, column |-> <<>>]
    /\ UNCHANGED <<pvars, regvars, mvars>>

\* A path of the query is resolved.
resolve_path(start, names) ==
    /\ qpc # "closed"
    /\ qpc' = "resolved"
    /\ qarg' = [start |-> start, names |-> names]
    /\ qbefore' = plan
    /\ IF rooted(qroot, start) /\ valid_path(start, names)
       THEN /\ qret' = [err |-> "", steps |-> hops(start, names),
                        column |-> <<SubSeq(names, 1, Len(names) - 1),
                                     names[Len(names)]>>]
            /\ plan' = merge(plan, hops(start, names))
       ELSE /\ qret' = [err |-> "PathResolutionError", steps |-> <<>>,
                        column |-> <<>>]
            /\ plan' = plan
    /\ UNCHANGED <<pvars, regvars, mvars, qroot>>

\* The paths of at most n names.
PathsUpTo(n) == UNION { [1..k -> Names] : k \in 1..n }

InitQuery ==
    /\ decl = [League |-> <<Field("id", "int|None"), Field("leaguename", "str")>>,
               Team |-> <<Field("id", "int|None"), Field("teamname", "str"),
                          Field("league", "League")>>,
               Athlete |-> <<Field("id", "int|None"), Field("name", "str"),
                             Field("team", "Team")>>]
    /\ _meta = <<>>
    /\ rpc = "idle"
    /\ arg = "Athlete"
    /\ ret = [err |-> "", meta |-> NoMeta]
    /\ serial = 0
    /\ resets = 0
    /\ before = <<>>
    /\ first = [t \in QueryTypes |-> NoMeta]
    /\ nbuilt = [t \in QueryTypes |-> 0]
    /\ InitIdle
    /\ InitNoMigration
    /\ heap = <<>>
    /\ db = [Band |-> <<>>, BOM |-> <<>>]
    /\ pc = "idle"
    /\ deep = FALSE
    /\ stack = <<>>
    /\ log = <<>>
    /\ result = None
    /\ err = ""
    /\ found = None

NextQuery ==
    \/ \E base \in QueryTypes : select(base)
    \/ \E names \in PathsUpTo(MaxPath) : resolve_path(qroot, names)
    \/ \E start \in QueryTypes, names \in PathsUpTo(MaxPath - 1) :
          start # qroot /\ resolve_path(start, names)

SpecQuery == InitQuery /\ [][NextQuery]_vars

----------------------------------------------------------------------------
\* Threads that call get_or_build(arg) for the same type at the same time.
\* A read that finds the type in the cache takes no lock; a thread that
\* misses takes the lock, looks again, and builds and stores under the lock.

\* The lock is free.
may_enter_always(holder) == TRUE

may_enter(holder) == holder = ""

\* The lock after the thread lets go of it.
release(th) == IF lock = th THEN "" ELSE lock

\* The thread calls get_or_build(arg) and looks in the cache.
t_call(th) ==
    /\ tpc[th] = "idle"
    /\ IF is_cached(arg)
       THEN /\ tpc' = [tpc EXCEPT ![th] = "returned"]
            /\ tret' = [tret EXCEPT ![th] = _meta[arg]]
       ELSE /\ tpc' = [tpc EXCEPT ![th] = "waiting"]
            /\ UNCHANGED tret
    /\ UNCHANGED <<pvars, xvars, bvars, lock, decl, _meta, rpc, arg, ret, serial,
                   resets, before, first, nbuilt, want>>

\* The thread takes the lock.
t_acquire(th) ==
    /\ tpc[th] = "waiting"
    /\ may_enter(lock)
    /\ lock' = th
    /\ tpc' = [tpc EXCEPT ![th] = "locked"]
    /\ UNCHANGED <<pvars, xvars, bvars, tret, decl, _meta, rpc, arg, ret, serial,
                   resets, before, first, nbuilt, want>>

\* Under the lock the thread looks in the cache again.
t_recheck(th) ==
    /\ tpc[th] = "locked"
    /\ IF is_cached(arg)
       THEN /\ tpc' = [tpc EXCEPT ![th] = "returned"]
            /\ tret' = [tret EXCEPT ![th] = _meta[arg]]
            /\ lock' = release(th)
       ELSE /\ tpc' = [tpc EXCEPT ![th] = "building"]
            /\ UNCHANGED <<tret, lock>>
    /\ UNCHANGED <<pvars, xvars, bvars, decl, _meta, rpc, arg, ret, serial,
                   resets, before, first, nbuilt, want>>

\* The build of a model by a thread that found it missing: the model is
\* built without another look in the cache, the models it refers to as in
\* visit.
build_missing(t) ==
    LET e == validate(t, reflect(t))
        sub == visit_all(forward_models(reflect(t)), {t},
                         [err |-> "", started |-> <<t>>, done |-> {}],
                         MaxDepth - 1)
    IN  IF e # "" THEN [err |-> e, started |-> <<>>, done |-> {}]
        ELSE IF sub.err # "" THEN sub
        ELSE [sub EXCEPT !.done = @ \cup {t}]

\* The thread builds the metadata, stores it and lets go of the lock.
t_build(th) ==
    /\ tpc[th] = "building"
    /\ lock' = release(th)
    /\ LET r == build_missing(arg)
       IN  IF r.err # ""
           THEN /\ tpc' = [tpc EXCEPT ![th] = "raised"]
                /\ UNCHANGED <<tret, _meta, serial, first, nbuilt>>
           ELSE /\ tpc' = [tpc EXCEPT ![th] = "returned"]
                /\ tret' = [tret EXCEPT ![th] = built(r.started, arg)]
                /\ _meta' = [t \in DOMAIN _meta \cup r.done |->
                               IF t \in r.done THEN built(r.started, t)
                               ELSE _meta[t]]
                /\ serial' = serial + Len(r.started)
                /\ nbuilt' = [t \in DOMAIN nbuilt |->
                                nbuilt[t] + Cardinality({k \in DOMAIN r.started :
                                                            r.started[k] = t})]
                /\ first' = [t \in DOMAIN first |->
                                IF t \in r.done /\ first[t] = NoMeta
                                THEN built(r.started, t) ELSE first[t]]
    /\ UNCHANGED <<pvars, xvars, bvars, decl, rpc, arg, ret, resets, before, want>>

InitThreads ==
    /\ decl \in { [Employee |-> e, Project |-> p, Employee_Names |-> IdHead] :
                    e \in BackpopEmployeeDeclarations,
                    p \in BackpopProjectDeclarations }
    /\ _meta = <<>>
    /\ rpc = "idle"
    /\ arg \in RelTypes
    /\ ret = [err |-> "", meta |-> NoMeta]
    /\ serial = 0
    /\ resets = 0
    /\ before = <<>>
    /\ first = [t \in RelTypes |-> NoMeta]
    /\ nbuilt = [t \in RelTypes |-> 0]
    /\ InitIdle
    /\ InitNoMigration
    /\ heap = <<>>
    /\ db = [Band |-> <<>>, BOM |-> <<>>]
    /\ pc = "idle"
    /\ deep = FALSE
    /\ stack = <<>>
    /\ log = <<>>
    /\ result = None
    /\ err = ""
    /\ found = None

NextThreads ==
    \E th \in Threads :
        \/ t_call(th)
        \/ t_acquire(th)
        \/ t_recheck(th)
        \/ t_build(th)

SpecThreads == InitThreads /\ [][NextThreads]_vars

----------------------------------------------------------------------------
\* Migrations.  A script file is <<number, content>>; the content of a script
\* is the schema its SQL leaves behind, "s0" being the schema of an empty DB.

Schemas == {"s1", "s2"}

\* The numbers of the script files.
numbers(fs) == {f[1] : f \in fs}

\* The schema of a DB whose _migrations table is done.
schema_of(done) == IF done = <<>> THEN "s0" ELSE done[Len(done)]

\* Migration numbers must be sequential, gapless and unique.
errors(fs) ==
    \/ \E f, g \in fs : f # g /\ f[1] = g[1]
    \/ numbers(fs) # 1..Cardinality(numbers(fs))

\* The scripts recorded in done whose file is missing or differs.
differing(fs, done) == {n \in DOMAIN done : <<n, done[n]>> \notin fs}

\* check(): read-only, the lists of CheckResult.
check ==
    [errors |-> errors(files),
     conflicted |-> IF ref.exists THEN differing(files, ref.applied) ELSE {},
     divergent |-> differing(files, applied),
     pending |-> {n \in numbers(files) : n > Len(applied)},
     model_diff |-> models # schema]

\* The state of the first revision of the notes, without CONFLICTED.
state_without_conflicted(r) ==
    IF r.errors THEN "ERROR"
    ELSE IF r.divergent # {} THEN "DIVERGED"
    ELSE IF r.pending # {} THEN "PENDING"
    ELSE IF r.model_diff THEN "DRIFT"
    ELSE "CURRENT"

\* CheckResult.state: first match wins.
state(r) ==
    IF r.errors THEN "ERROR"
    ELSE IF r.conflicted # {} THEN "CONFLICTED"
    ELSE IF r.divergent # {} THEN "DIVERGED"
    ELSE IF r.pending # {} THEN "PENDING"
    ELSE IF r.model_diff THEN "DRIFT"
    ELSE "CURRENT"

\* A state gate that lets every method through.
allowed_always(method, st) == TRUE

\* The state gate of a method.
allowed(method, st) ==
    CASE method = "generate" -> st = "DRIFT"
      [] method = "apply" -> st = "PENDING"
      [] method = "restore_scripts" -> st = "CONFLICTED"
      [] method = "restore_db" -> st \in {"DIVERGED", "CONFLICTED", "ERROR"}
      [] OTHER -> TRUE

\* The files after generate(): a script that brings the schema to the models.
generated(fs) == fs \cup {<<Max(numbers(fs) \cup {0}) + 1, models>>}

\* The files after restore_scripts(): those recorded in the reference DB are
\* overwritten or recreated.
restored(fs) ==
    {f \in fs : f[1] \notin DOMAIN ref.applied}
        \cup {<<n, ref.applied[n]>> : n \in DOMAIN ref.applied}

\* The script that apply runs: the pending script of the lowest number.
next_script(fs) ==
    CHOOSE f \in fs : /\ f[1] > Len(applied)
                      /\ \A g \in fs : g[1] > Len(applied) => f[1] <= g[1]

\* The _migrations table after all pending scripts were applied in order.
RECURSIVE applied_all(_, _)
applied_all(fs, done) ==
    IF \E f \in fs : f[1] = Len(done) + 1
    THEN applied_all(fs, Append(done, (CHOOSE f \in fs : f[1] = Len(done) + 1)[2]))
    ELSE done

m_check ==
    /\ mop' = "check"
    /\ mret' = state(check)
    /\ UNCHANGED <<pvars, regvars, qvars, files, applied, schema, ref, models,
                   dpc, dprev, drestores>>

generate ==
    /\ mop' = "generate"
    /\ IF allowed("generate", state(check))
       THEN /\ files' = generated(files)
            /\ mret' = "ok"
       ELSE /\ mret' = "refused"
            /\ UNCHANGED files
    /\ UNCHANGED <<pvars, regvars, qvars, applied, schema, ref, models,
                   dpc, dprev, drestores>>

apply ==
    /\ mop' = "apply"
    /\ IF allowed("apply", state(check)) /\ check.pending # {}
       THEN /\ applied' = Append(applied, next_script(files)[2])
            /\ schema' = next_script(files)[2]
            /\ mret' = "ok"
       ELSE /\ mret' = "refused"
            /\ UNCHANGED <<applied, schema>>
    /\ UNCHANGED <<pvars, regvars, qvars, files, ref, models, dpc, dprev, drestores>>

restore_db ==
    /\ mop' = "restore_db"
    /\ IF allowed("restore_db", state(check)) /\ ref.exists
       THEN /\ applied' = ref.applied
            /\ schema' = schema_of(ref.applied)
            /\ mret' = "ok"
       ELSE /\ mret' = "refused"
            /\ UNCHANGED <<applied, schema>>
    /\ UNCHANGED <<pvars, regvars, qvars, files, ref, models, dpc, dprev, drestores>>

restore_scripts ==
    /\ mop' = "restore_scripts"
    /\ IF allowed("restore_scripts", state(check)) /\ ref.exists
       THEN /\ files' = restored(files)
            /\ mret' = "ok"
       ELSE /\ mret' = "refused"
            /\ UNCHANGED files
    /\ UNCHANGED <<pvars, regvars, qvars, applied, schema, ref, models,
                   dpc, dprev, drestores>>

\* The _migrations tables of at most n scripts.
Tables(n) == UNION { [1..k -> Schemas] : k \in 0..n }

\* Any script files numbered up to MaxScripts, any working DB and any
\* reference DB of at most MaxScripts applied scripts, any models.
InitFiles ==
    /\ files \in SUBSET ((1..MaxScripts) \X Schemas)
    /\ applied \in Tables(MaxScripts)
    /\ schema = schema_of(applied)
    /\ ref \in {[exists |-> FALSE, applied |-> <<>>]}
                 \cup {[exists |-> TRUE, applied |-> t] : t \in Tables(MaxScripts)}
    /\ models \in Schemas \cup {"s0"}
    /\ mop = ""
    /\ mret = ""
    /\ dprev = ""
    /\ drestores = [scripts |-> 0, db |-> 0]

InitMigrate ==
    /\ InitFiles
    /\ dpc = "idle"
    /\ decl = [t \in Types |-> <<Field("id", "int|None"), Field("name", "str")>>]
    /\ _meta = <<>>
    /\ rpc = "idle"
    /\ arg = "Band"
    /\ ret = [err |-> "", meta |-> NoMeta]
    /\ serial = 0
    /\ resets = 0
    /\ before = <<>>
    /\ first = [t \in Types |-> NoMeta]
    /\ nbuilt = [t \in Types |-> 0]
    /\ InitIdle
    /\ heap = <<>>
    /\ db = [Band |-> <<>>, BOM |-> <<>>]
    /\ pc = "idle"
    /\ deep = FALSE
    /\ stack = <<>>
    /\ log = <<>>
    /\ result = None
    /\ err = ""
    /\ found = None

NextMigrate ==
    \/ m_check
    \/ generate
    \/ apply
    \/ restore_db
    \/ restore_scripts

SpecMigrate == InitMigrate /\ [][NextMigrate]_vars

\* The dev workflow: check, fix, check again; recursive with loop breaker.

\* The loop breaker that never finds the state unchanged.
unchanged_never(prev, st) == FALSE

\* The state is unchanged after a fix attempt.
unchanged(prev, st) == prev = st

\* One more restore, counted up to two.
counted(n) == IF n < 2 THEN n + 1 ELSE n

\* The dev command is started.
dev ==
    /\ dpc = "idle"
    /\ dpc' = "run"
    /\ dprev' = ""
    /\ mop' = "dev"
    /\ UNCHANGED <<pvars, regvars, qvars, files, applied, schema, ref, models,
                   mret, drestores>>

\* One round of the dev command: check, then exit or fix and recurse.
dev_step ==
    /\ dpc = "run"
    /\ mop' = "dev"
    /\ mret' = state(check)
    /\ LET st == state(check)
       IN  IF st = "CURRENT"
           THEN /\ dpc' = "exit0"
                /\ UNCHANGED <<files, applied, schema, dprev, drestores>>
           ELSE IF st = "ERROR" \/ unchanged(dprev, st)
           THEN /\ dpc' = "exit1"
                /\ UNCHANGED <<files, applied, schema, dprev, drestores>>
           ELSE /\ dpc' = "run"
                /\ dprev' = st
                /\ CASE st = "CONFLICTED" ->
                          /\ files' = restored(files)
                          /\ drestores' = [drestores EXCEPT
                                              !.scripts = counted(@)]
                          /\ UNCHANGED <<applied, schema>>
                     [] st = "DIVERGED" ->
                          /\ applied' = IF ref.exists THEN ref.applied ELSE applied
                          /\ schema' = IF ref.exists THEN schema_of(ref.applied)
                                        ELSE schema
                          /\ drestores' = [drestores EXCEPT !.db = counted(@)]
                          /\ UNCHANGED files
                     [] st = "PENDING" ->
                          /\ applied' = applied_all(files, applied)
                          /\ schema' = schema_of(applied_all(files, applied))
                          /\ UNCHANGED <<files, drestores>>
                     [] st = "DRIFT" ->
                          /\ files' = generated(files)
                          /\ UNCHANGED <<applied, schema, drestores>>
    /\ UNCHANGED <<pvars, regvars, qvars, ref, models>>

NextDev ==
    \/ dev
    \/ dev_step

\* The dev command runs on: it is not held up for ever.
SpecDev == InitMigrate /\ [][NextDev]_vars /\ WF_vars(NextDev)

----------------------------------------------------------------------------
\* Properties of save

\* The insert statements executed for an object.
InsertsOf(o) == {i \in DOMAIN log : log[i].op = "insert" /\ log[i].obj = o}

\* The save call returned a row.
Saved == pc \in {"done", "found"} /\ result # None

\* The table row of id i before the call.
RowBefore(m, i) == IF m = "Band" THEN InitialBand ELSE InitialRow(heap, i)

\* C1: in one save(R, deep=True), an id-less row object that R reaches by
\* two or more paths is inserted exactly once, and every foreign key written
\* for a row that holds it is the one id it was given.
C1_SharedRowInsertedOnce ==
    deep =>
        /\ \A o \in DOMAIN heap : Cardinality(InsertsOf(o)) <= 1
        /\ \A p \in DOMAIN log : \A k \in DOMAIN log[p].fks :
              LET c == heap[log[p].obj].fks[k]
              IN  (c # 0 /\ heap[c].id = NoId) =>
                      \A i \in InsertsOf(c) : log[p].fks[k] = log[i].id
        /\ Saved => \A o \in DOMAIN heap :
                        heap[o].id = NoId => Cardinality(InsertsOf(o)) = 1

\* The statement of a related row precedes the statement of the row that
\* holds it, and gives the id the later one binds as foreign key.
ChildBeforeParent ==
    deep =>
        \A p \in DOMAIN log : \A k \in DOMAIN log[p].fks :
            LET c == heap[log[p].obj].fks[k]
            IN  c # 0 => \E i \in 1..(p - 1) :
                            /\ log[i].obj = c
                            /\ log[i].id # NoId
                            /\ log[i].id = log[p].fks[k]

\* A step executes at most one statement, for the innermost call, after the
\* fields of its row are saved.
OneStatementAtATime ==
    log' # log =>
        /\ Len(log') = Len(log) + 1
        /\ SubSeq(log', 1, Len(log)) = log
        /\ stack # <<>>
        /\ log'[Len(log')].obj = Top.obj
        /\ all_fields_made(Top)

\* C2: in save(row, deep=True) the statement for a related row C comes
\* strictly before the statement for the row P that holds it, the foreign key
\* written for P is the id of C, and the statements are executed one at a
\* time, each by the innermost call once its own fields are saved.
C2_PostOrderWrites == [](ChildBeforeParent) /\ [][OneStatementAtATime]_vars

C2_Witness ==
    /\ deep
    /\ Saved
    /\ \E p \in DOMAIN log, q \in DOMAIN log :
          /\ log[p].op = "insert" /\ log[q].op = "update"
          /\ \E k \in 1..2 : heap[log[p].obj].fks[k] # 0
          /\ \E k \in 1..2 : heap[log[q].obj].fks[k] # 0

\* C3: a row is written by an insert if and only if its id is unset and by
\* an update if and only if its id is set, whether or not a row of that id
\* is in the table; an inserted row is handed back with an id.
C3_InsertIffNoId ==
    /\ \A i \in DOMAIN log :
          /\ (log[i].op = "insert") <=> (heap[log[i].obj].id = NoId)
          /\ (log[i].op = "update") <=> (heap[log[i].obj].id # NoId)
          /\ log[i].op = "insert" => log[i].id # NoId
    /\ deep => \A i \in DOMAIN stack : \A k \in DOMAIN stack[i].made :
                  stack[i].made[k] = None \/ stack[i].made[k].id # NoId
    /\ Saved => result.id # NoId

C3_Witness ==
    \E i \in DOMAIN log, j \in DOMAIN log :
        /\ log[i].op = "insert"
        /\ log[j].op = "update" /\ log[j].rows = 0

\* A forward field of the saved row holds a row without an id.
HoldsUnpersistedRow ==
    \E k \in DOMAIN heap[root].fks :
        heap[root].fks[k] # 0 /\ heap[heap[root].fks[k]].id = NoId

\* C5: save(row, deep=False) fails when a forward field of row holds a row
\* without an id, and then no statement is executed and no table changes.
C5_ShallowRejectsUnpersisted ==
    (pc # "idle" /\ ~deep /\ HoldsUnpersistedRow) =>
        /\ pc = "done"
        /\ err = "UnpersistedRelationError"
        /\ result = None
        /\ log = <<>>
        /\ \A m \in TableModels : \A i \in DOMAIN db[m] : db[m][i] = RowBefore(m, i)

C5_Witness ==
    /\ pc = "done" /\ ~deep
    /\ err = "UnpersistedRelationError"
    /\ HoldsUnpersistedRow

\* C6: a save(row, deep=False) that succeeds executes one statement, for row
\* itself, and leaves every other table row as it was, also the row of a
\* related row whose in-memory values differ from the stored ones.
C6_ShallowWritesOneRow ==
    (~deep /\ Saved) =>
        /\ Len(log) = 1
        /\ log[1].obj = root /\ log[1].rows = 1 /\ log[1].id = result.id
        /\ result.id \in DOMAIN db[result.model]
        /\ \A m \in TableModels : \A i \in DOMAIN db[m] :
              (m # result.model \/ i # result.id) => db[m][i] = RowBefore(m, i)

C6_Witness ==
    /\ ~deep /\ pc = "done" /\ result # None
    /\ \E k \in 1..2 :
          LET c == heap[root].fks[k]
          IN  /\ c # 0
              /\ Stored(ToRow(c)).vals # db["BOM"][heap[c].id].vals
              /\ db["BOM"][heap[c].id] = InitialRow(heap, heap[c].id)

\* Every row the saved row reaches has an id.
AllIdsSet == \A o \in DOMAIN heap : heap[o].id # NoId

\* A loaded row is saved by updates and comes back as it went in.
OnlyUpdates ==
    (deep /\ AllIdsSet) =>
        /\ \A i \in DOMAIN log : log[i].op = "update"
        /\ Saved => result = ToRow(root)
        /\ (pc = "done" /\ \A o \in DOMAIN heap :
                              heap[o].id \in DOMAIN db[heap[o].model])
              => (err = "" /\ result = ToRow(root))

\* No step of the save of a loaded row changes the number of rows of a table.
SameRowCount ==
    (deep /\ AllIdsSet) =>
        \A m \in TableModels :
            Cardinality(DOMAIN db'[m]) = Cardinality(DOMAIN db[m])

\* C7: save(row, deep=True) on a loaded row (every row it reaches has an id)
\* executes updates only, leaves the number of rows of every table as it was,
\* and, the rows being in their tables, returns a row equal to its input.
C7_LoadedRowSavedByUpdates == [](OnlyUpdates) /\ [][SameRowCount]_vars

C7_Witness ==
    /\ deep /\ AllIdsSet /\ pc = "done" /\ err = ""
    /\ Len(log) >= 3
    /\ result = ToRow(root)

\* C8: a row of a model with scalar fields only, saved with deep=False and
\* loaded again by the id of the returned row, equals the original in every
\* field but the id, which is an integer and not None.
C8_ScalarRoundTrip ==
    (pc = "found" /\ ~deep /\ FkCount(heap[root].model) = 0) =>
        /\ err = ""
        /\ found # None
        /\ found.id = result.id
        /\ found.id \in Nat \ {NoId}
        /\ [found EXCEPT !.id = heap[root].id] = ToRow(root)

C8_Witness ==
    /\ pc = "found" /\ ~deep
    /\ heap[root].model = "Band"
    /\ heap[root].id = NoId
    /\ heap[root].vals[2] = PyBool(FALSE)
    /\ found.vals = heap[root].vals

\* C4: a save(row, deep=True) whose traversal comes back to a row that is
\* still being saved (A -> B -> C -> A) ends by raising CycleDetectedError and
\* returns no saved row.
C4_CycleRaisesCycleDetectedError ==
    (pc = "done" /\ err # "IdNoRowError"
        /\ \E o \in DOMAIN heap : Revisited(heap, o)) =>
            /\ err = "CycleDetectedError"
            /\ result = None

----------------------------------------------------------------------------
\* Properties of the metadata cache

\* C9: get_or_build for a cached type whose freshly derived field list is
\* not the cached one raises RegistrationConflictError and leaves the cache,
\* that entry and every other, as it was.
C9_ConflictLeavesCache ==
    (rpc = "returned" /\ arg \in DOMAIN before /\ before[arg].fields # decl[arg]) =>
        /\ ret.err = "RegistrationConflictError"
        /\ ret.meta = NoMeta
        /\ _meta = before

C9_Witness ==
    /\ rpc = "returned"
    /\ ret.err = "RegistrationConflictError"
    /\ DOMAIN _meta = Types
    /\ _meta[arg].fields # decl[arg]

\* C10: between resets a type's metadata is built at most once, every call
\* of get_or_build that returns gives the metadata the first call gave, and
\* the cache holds one entry per type.
C10_BuiltOnce ==
    /\ \A t \in Types : nbuilt[t] <= 1
    /\ \A t \in DOMAIN _meta : _meta[t].type = t /\ _meta[t] = first[t]
    /\ (rpc = "returned" /\ ret.err = "") =>
          /\ ret.meta = first[arg]
          /\ ret.meta = _meta[arg]

C10_Witness ==
    /\ rpc = "returned" /\ ret.err = ""
    /\ arg \in DOMAIN before
    /\ ret.meta = first[arg]
    /\ resets = 1

----------------------------------------------------------------------------
\* Properties of registration

\* The call in progress is the first registration of its model.
FirstRegistration == rpc = "returned" /\ arg \notin DOMAIN before

\* The call raised e and left the cache as it was.
Rejected(e) == ret.err = e /\ ret.meta = NoMeta /\ _meta = before

\* The id of a declaration is missing, not first, or not int | None.
IdMisdeclared(fields) ==
    \/ \E j \in DOMAIN fields :
          fields[j][1] = "id" /\ (j # 1 \/ fields[j][2] # "int|None")
    \/ want = "table" /\ \A j \in DOMAIN fields : fields[j][1] # "id"

\* C14: every registered table model has its id first, named id and typed
\* int | None, and the registration of a table model whose id is missing,
\* not first or not int | None raises InvalidIdentifierFieldError.
C14_IdFirstOrRejected ==
    /\ \A t \in DOMAIN _meta :
          _meta[t].kind = "table" =>
              /\ _meta[t].fields[1][1] = "id"
              /\ _meta[t].fields[1][2] = "int|None"
              /\ \A j \in DOMAIN _meta[t].fields :
                    _meta[t].fields[j][1] = "id" => j = 1
    /\ (rpc = "returned" /\ IdMisdeclared(decl[arg])) =>
          Rejected("InvalidIdentifierFieldError")

C14_Witness ==
    /\ rpc = "returned"
    /\ decl[arg][1][1] = "id" /\ decl[arg][1][2] = "int"
    /\ ret.err = "InvalidIdentifierFieldError"
    /\ \E t \in DOMAIN _meta : _meta[t].kind = "table"

\* Employee is declared so that it registers.
EmployeeRegisters ==
    /\ Len(decl["Employee"]) >= 2
    /\ SubSeq(decl["Employee"], 1, 2) = IdHead

\* The forward references of Project are Employee or Employee | None, and
\* no name of one begins another.
ProjectRegisters ==
    /\ \A j \in DOMAIN decl["Project"] :
          j > 2 => decl["Project"][j][2] \in {"Employee", "Employee|None"}
    /\ ~(\E i \in DOMAIN decl["Project"], j \in DOMAIN decl["Project"] :
            decl["Project"][i][1] = "lead" /\ decl["Project"][j][1] = "lead_developer")

\* C15: a model whose forward reference is typed as the related model or
\* None registers and the field is marked nullable; one whose forward
\* reference is a union of the related model with another type that is not
\* None raises InvalidForeignKeyUnionError.
C15_ForeignKeyUnion ==
    /\ (rpc = "returned" /\ ret.err = "") =>
          \A j \in DOMAIN ret.meta.fields :
              /\ ret.meta.fields[j][2] \in {"Employee|None", "Project|None"} =>
                    /\ ret.meta.specs[j].nullable
                    /\ ret.meta.specs[j].role = "forward-reference"
              /\ ret.meta.fields[j][2] \in {"Employee", "Project"} =>
                    /\ ~ret.meta.specs[j].nullable
                    /\ ret.meta.specs[j].role = "forward-reference"
    /\ (FirstRegistration /\ arg = "Project" /\ ProjectRegisters /\ EmployeeRegisters) =>
          /\ ret.err = ""
          /\ ret.meta.fields = decl["Project"]
          /\ _meta["Project"] = ret.meta
    /\ (FirstRegistration /\ arg = "Project"
          /\ \E j \in DOMAIN decl["Project"] :
                decl["Project"][j][2] \in {"Employee|int", "Employee|int|None"}) =>
          Rejected("InvalidForeignKeyUnionError")

C15_Witness ==
    /\ FirstRegistration /\ arg = "Project" /\ ret.err = ""
    /\ \E j \in DOMAIN ret.meta.fields :
          ret.meta.fields[j][2] = "Employee|None" /\ ret.meta.specs[j].nullable
    /\ \E j \in DOMAIN ret.meta.fields :
          ret.meta.fields[j][2] = "Employee" /\ ~ret.meta.specs[j].nullable

\* C16: the registration of a table model with a field typed as an alt or
\* an adhoc model raises NonTableForeignKeyError, and every forward reference
\* of a registered table model names a registered table model.
C16_ForwardEdgesToTables ==
    /\ \A t \in DOMAIN _meta :
          _meta[t].kind = "table" =>
              \A j \in DOMAIN _meta[t].fields :
                  _meta[t].specs[j].role = "forward-reference" =>
                      \E r \in DOMAIN _meta :
                          /\ r \in unwrap_optional_type(_meta[t].fields[j][2])[2]
                          /\ _meta[r].kind = "table"
    /\ (FirstRegistration /\ arg = "Project"
          /\ \E j \in DOMAIN decl["Project"] :
                decl["Project"][j][2] = "Employee_Names") =>
          Rejected("NonTableForeignKeyError")

C16_Witness ==
    /\ FirstRegistration /\ arg = "Project"
    /\ ret.err = "NonTableForeignKeyError"
    /\ decl["Employee_Names"] = IdHead
    /\ "Employee_Names" \in DOMAIN _meta
    /\ _meta["Employee_Names"].kind = "alt"

\* C20: the registration of a model with two forward references to the same
\* table model, the name of one a strict prefix of the name of the other
\* (lead and lead_developer), raises AmbiguousForwardReferenceError, with or
\* without a backpop field on the related model.
C20_AmbiguousForwardReference ==
    (FirstRegistration /\ arg = "Project"
        /\ (\E j \in DOMAIN decl["Employee"] : decl["Employee"][j][1] = "id")
        /\ (\E j \in DOMAIN decl["Project"] : decl["Project"][j][1] = "lead")
        /\ (\E j \in DOMAIN decl["Project"] : decl["Project"][j][1] = "lead_developer")
        /\ \A j \in DOMAIN decl["Project"] :
              j > 2 => decl["Project"][j][2] \in {"Employee", "Employee|None"}) =>
        Rejected("AmbiguousForwardReferenceError")

C20_Witness ==
    /\ FirstRegistration /\ arg = "Project"
    /\ ret.err = "AmbiguousForwardReferenceError"
    /\ decl["Employee"] = IdHead
    /\ "Employee" \in DOMAIN _meta

\* C12: the build of a model that refers to itself, or of models that refer
\* to each other, ends: no model is built twice, a reference to a model in
\* progress starts no build, and the registration succeeds.
C12_CyclicReferencesBuildOnce ==
    /\ \A t \in RelTypes : nbuilt[t] <= 1
    /\ ret.err # "RecursionError"
    /\ (FirstRegistration /\ arg \in {"Employee", "Project"}
          /\ EmployeeRegisters /\ ProjectRegisters) =>
          /\ ret.err = ""
          /\ \A r \in RelTypes :
                (\E j \in DOMAIN decl[arg] :
                    r \in unwrap_optional_type(decl[arg][j][2])[2]) =>
                        r \in DOMAIN _meta /\ _meta[r].fields = decl[r]

C12_Witness ==
    /\ FirstRegistration /\ arg = "Employee" /\ ret.err = ""
    /\ before = <<>>
    /\ \E j \in DOMAIN decl["Employee"] : decl["Employee"][j][2] = "Project|None"
    /\ \E j \in DOMAIN decl["Project"] : decl["Project"][j][2] = "Employee"
    /\ DOMAIN _meta = {"Employee", "Project"}
    /\ nbuilt["Employee"] = 1 /\ nbuilt["Project"] = 1

----------------------------------------------------------------------------
\* Properties of the resolution of backpop fields

\* a is a prefix of b (both spelled out).
IsPrefix(a, b) == Len(a) <= Len(b) /\ SubSeq(b, 1, Len(a)) = a

\* The name of a backpop field without its trailing collection suffix.
Stem(name) ==
    LET w == spell(name)
    IN  IF w[Len(w)] \in {"_of", "s"} THEN SubSeq(w, 1, Len(w) - 1) ELSE w

\* The fields of Project, as declared, whose type is Employee or
\* Employee | None: the candidates of a backpop field of Employee.
Candidates ==
    { decl["Project"][j][1] : j \in
        {j \in DOMAIN decl["Project"] :
            decl["Project"][j][2] \in {"Employee", "Employee|None"}} }

\* resolve_backpop returned the forward field c of Project.
Resolved(c) == bret.err = "" /\ bret.edge = <<"Project", c>>

\* resolve_backpop raised AmbiguousBackpopError and made no edge.
Ambiguous ==
    /\ bret.err = "AmbiguousBackpopError"
    /\ bret.edge = <<>>
    /\ barg \notin DOMAIN backpop_edges

\* An edge, once resolved, is worked out once and handed out as it is.
ResolvedOnce ==
    /\ \A k \in DOMAIN backpop_edges :
          k \in DOMAIN resolutions /\ Len(resolutions[k]) = 1
    /\ (bpc = "returned" /\ barg \in DOMAIN backpop_edges) =>
          bret.err = "" /\ bret.edge = backpop_edges[barg]

\* No step changes a resolved edge or works it out again.
ResolvedEdgesStay ==
    \A k \in DOMAIN backpop_edges :
        /\ k \in DOMAIN backpop_edges'
        /\ backpop_edges'[k] = backpop_edges[k]
        /\ resolutions'[k] = resolutions[k]

\* C13: a resolved backpop edge never changes: the registration of a later,
\* unrelated model neither alters it nor has it worked out again, and every
\* later resolve_backpop of the same (owner, field) returns the same edge.
C13_ResolvedEdgesImmutable == [](ResolvedOnce) /\ [][ResolvedEdgesStay]_vars

C13_Witness ==
    /\ bpc = "returned" /\ bret.hit
    /\ "Employee_Names" \in DOMAIN _meta
    /\ resolutions[barg][1] < _meta["Employee_Names"].serial
    /\ bret.at >= _meta["Employee_Names"].serial
    /\ bret.edge = backpop_edges[barg]

\* C17 as claimed: with more than one candidate, resolve_backpop returns the
\* candidate C if and only if the name of F without its collection suffix is
\* a prefix of the name of C and of no other candidate, and raises
\* AmbiguousBackpopError otherwise.
C17_StemPrefixesOneCandidate ==
    (bpc = "returned" /\ Cardinality(Candidates) > 1) =>
        LET hits == {c \in Candidates : IsPrefix(Stem(barg[2]), spell(c))}
        IN  IF Cardinality(hits) = 1
            THEN \A c \in hits : Resolved(c)
            ELSE Ambiguous

\* C17: with more than one candidate, resolve_backpop returns the candidate
\* C if and only if the name of C is a prefix of the name of F and the name
\* of no other candidate is, and raises AmbiguousBackpopError otherwise.
C17_OneCandidatePrefixesBackpop ==
    (bpc = "returned" /\ Cardinality(Candidates) > 1) =>
        LET hits == {c \in Candidates : IsPrefix(spell(c), spell(barg[2]))}
        IN  IF Cardinality(hits) = 1
            THEN \A c \in hits : Resolved(c)
            ELSE Ambiguous

C17_Witness ==
    /\ bpc = "returned" /\ ~bret.hit
    /\ barg[2] = "lead_developer_of"
    /\ Candidates = {"manager", "lead_developer"}
    /\ Resolved("lead_developer")

\* C18 as claimed: with exactly one candidate, resolve_backpop returns it
\* whatever the two names are.
C18_SingleCandidateAnyName ==
    (bpc = "returned" /\ Cardinality(Candidates) = 1) =>
        \A c \in Candidates : Resolved(c)

\* C18: with exactly one candidate, resolve_backpop returns it when its name
\* is a prefix of the name of F, and raises AmbiguousBackpopError when not.
C18_SingleCandidatePrefixesBackpop ==
    (bpc = "returned" /\ Cardinality(Candidates) = 1) =>
        \A c \in Candidates :
            IF IsPrefix(spell(c), spell(barg[2])) THEN Resolved(c) ELSE Ambiguous

C18_Witness ==
    /\ bpc = "returned" /\ ~bret.hit
    /\ Candidates = {"manager"}
    /\ barg[2] = "manager_of"
    /\ Resolved("manager")

\* C19: resolve_backpop of a field of X that lists Y, when no field of Y has
\* the type X, raises AmbiguousBackpopError and makes no edge.
C19_NoCandidate ==
    (bpc = "returned" /\ Candidates = {}) => Ambiguous

C19_Witness ==
    /\ bpc = "returned"
    /\ barg = <<"Employee", "projects">>
    /\ decl["Project"] = IdHead
    /\ Ambiguous

----------------------------------------------------------------------------
\* Properties of threads that register the same type

\* C11: when several threads call get_or_build for the same type that is not
\* registered yet, one build ends up in the cache under every interleaving,
\* and every thread that returns, the one that built and the others, returns
\* that ModelMeta.
C11_OneBuildForAllThreads ==
    \A th \in Threads :
        tpc[th] = "returned" =>
            /\ arg \in DOMAIN _meta
            /\ tret[th] = _meta[arg]
            /\ _meta[arg] = first[arg]
            /\ nbuilt[arg] = 1

C11_Witness ==
    /\ tpc["t1"] = "returned"
    /\ tpc["t2"] = "locked"
    /\ arg \in DOMAIN _meta
    /\ tret["t1"] = _meta[arg]
    /\ nbuilt[arg] = 1

----------------------------------------------------------------------------
\* Properties of the order of declaration and registration

\* C21: whatever the order in which Team and Person declare their fields and
\* in which the two models are registered, primary_teams resolves to
\* Person.primary_team and secondary_teams to Person.secondary_team.
C21_ResolutionIgnoresOrder ==
    /\ bpc = "returned" =>
          /\ bret.err = ""
          /\ barg = <<"Team", "primary_teams">> =>
                bret.edge = <<"Person", "primary_team">>
          /\ barg = <<"Team", "secondary_teams">> =>
                bret.edge = <<"Person", "secondary_team">>
    /\ \A k \in DOMAIN backpop_edges :
          backpop_edges[k] = <<"Person", Stem(k[2])[1]>>

C21_Witness ==
    /\ decl["Team"][3][1] = "secondary_teams"
    /\ decl["Person"][3][1] = "primary_team"
    /\ DOMAIN backpop_edges =
          {<<"Team", "primary_teams">>, <<"Team", "secondary_teams">>}
    /\ _meta["Person"].serial < _meta["Team"].serial
    /\ backpop_edges[<<"Team", "secondary_teams">>] = <<"Person", "secondary_team">>

----------------------------------------------------------------------------
\* Properties of the joins of a query

\* The path resolved last, and whether it was resolved without error.
PathResolved == qpc = "resolved" /\ qret.err = ""

\* The names of the path resolved last up to the i-th.
PrefixOf(i) == SubSeq(qarg.names, 1, i)

\* The joins emitted before the last path already hold the prefix.
Emitted(prefix) == \E k \in DOMAIN qbefore : qbefore[k].prefix = prefix

\* C22: the joins of one query hold at most one step for each prefix of field
\* names: a path adds a step only for the prefixes no earlier path of the
\* query had, so that [team, teamname] and [team, league, leaguename] share
\* the one step of team, and a path whose prefixes were all emitted adds none.
C22_OneJoinPerPrefix ==
    /\ \A i, j \in DOMAIN plan : plan[i].prefix = plan[j].prefix => i = j
    /\ PathResolved =>
          /\ Len(plan) = Len(qbefore) + Cardinality(
                {i \in 1..(Len(qarg.names) - 1) : ~Emitted(PrefixOf(i))})
          /\ SubSeq(plan, 1, Len(qbefore)) = qbefore

C22_Witness ==
    /\ PathResolved
    /\ qroot = "Athlete"
    /\ qarg.names = <<"team", "league", "leaguename">>
    /\ qbefore = <<[prefix |-> <<"team">>, table |-> "Team"]>>
    /\ plan = <<[prefix |-> <<"team">>, table |-> "Team"],
                [prefix |-> <<"team", "league">>, table |-> "League"]>>

\* C23: a valid path of n names gives n - 1 join steps, one for each name but
\* the last and in the order of the names; resolved alone these are the joins
\* of the query; the last name is a column of the table joined last, of the
\* root table when n = 1.
C23_OneJoinPerHop ==
    PathResolved =>
        /\ Len(qret.steps) = Len(qarg.names) - 1
        /\ \A i \in DOMAIN qret.steps : qret.steps[i].prefix = PrefixOf(i)
        /\ qbefore = <<>> => plan = qret.steps
        /\ qret.column[2] = qarg.names[Len(qarg.names)]
        /\ qret.column[1] = IF Len(qarg.names) = 1 THEN <<>>
                            ELSE qret.steps[Len(qret.steps)].prefix

C23_Witness ==
    /\ PathResolved
    /\ qbefore = <<>>
    /\ qarg = [start |-> "Athlete", names |-> <<"team", "league", "leaguename">>]
    /\ plan = <<[prefix |-> <<"team">>, table |-> "Team"],
                [prefix |-> <<"team", "league">>, table |-> "League"]>>
    /\ qret.column = <<<<"team", "league">>, "leaguename">>

\* Some name of the path but the last is no forward-reference field of the
\* model reached so far, or the last is no field of the model reached.
BadPath ==
    \/ \E i \in 1..(Len(qarg.names) - 1) : model_at(qroot, qarg.names, i) = ""
    \/ LET m == model_at(qroot, qarg.names, Len(qarg.names) - 1)
       IN  m # "" /\ \A j \in DOMAIN reflect(m) :
                        reflect(m)[j][1] # qarg.names[Len(qarg.names)]

\* C24: resolving a path from the root raises PathResolutionError whenever a
\* name but the last is no forward-reference field of the model reached so
\* far or the last name is no field of the model reached; no join path is
\* returned and the joins of the query stay as they were.
C24_BadPathRaises ==
    (qpc = "resolved" /\ qarg.start = qroot /\ BadPath) =>
        /\ qret = [err |-> "PathResolutionError", steps |-> <<>>, column |-> <<>>]
        /\ plan = qbefore

C24_Witness ==
    /\ qpc = "resolved"
    /\ qarg = [start |-> "Athlete", names |-> <<"team", "teamname", "leaguename">>]
    /\ qbefore = <<[prefix |-> <<"team">>, table |-> "Team"]>>
    /\ plan = qbefore
    /\ qret.err = "PathResolutionError"

\* C25: a path that does not start at the root model of the query is rejected
\* with an error, and every join of the query is a chain of forward
\* references walked from the root.
C25_OnlyRootedPaths ==
    /\ (qpc = "resolved" /\ qarg.start # qroot) =>
          qret.err # "" /\ qret.steps = <<>> /\ plan = qbefore
    /\ \A k \in DOMAIN plan :
          /\ plan[k].table # ""
          /\ plan[k].table = model_at(qroot, plan[k].prefix, Len(plan[k].prefix))

C25_Witness ==
    /\ qpc = "resolved"
    /\ qroot = "League"
    /\ qarg = [start |-> "Team", names |-> <<"teamname">>]
    /\ qret.err = "PathResolutionError"
    /\ plan = <<>>

----------------------------------------------------------------------------
\* Properties of migrations

\* A script recorded in the reference DB differs from its file, or has none.
ScriptDiffersFromRef ==
    ref.exists /\ \E n \in DOMAIN ref.applied : <<n, ref.applied[n]>> \notin files

\* A script recorded in the working DB differs from its file, or has none.
ScriptDiffersFromDB == \E n \in DOMAIN applied : <<n, applied[n]>> \notin files

\* A script file is not applied yet.
UnappliedScript == \E f \in files : f[1] > Len(applied)

GatedOut ==
    \/ mop' = "generate" /\ state(check) # "DRIFT"
    \/ mop' = "apply" /\ state(check) # "PENDING"
    \/ mop' = "restore_scripts" /\ state(check) # "CONFLICTED"

\* A method called outside its state leaves the scripts and the DB alone.
GatedOutChangesNothing ==
    GatedOut => UNCHANGED <<files, applied, schema>> /\ mret' = "refused"

\* C27: generate() takes effect in state DRIFT only, apply() in state PENDING
\* only and restore_scripts() in state CONFLICTED only: called in any other
\* state, the method changes neither the database, its _migrations table nor
\* the script files.
C27_MethodsGatedByState == [][GatedOutChangesNothing]_vars

C27_Witness ==
    /\ mop = "apply"
    /\ mret = "refused"
    /\ state(check) = "DRIFT"
    /\ files # {}

\* The dev command has ended.
Exited == dpc \in {"exit0", "exit1"}

\* How the dev command ends, and the restores it ran.
ExitsAsChecked ==
    /\ dpc = "exit0" => state(check) = "CURRENT"
    /\ dpc = "exit1" => state(check) = "ERROR" \/ state(check) = dprev
    /\ drestores.scripts <= 1
    /\ drestores.db <= 1

\* C28: the dev command always ends: it checks and fixes again and again,
\* exits 0 only in state CURRENT, exits 1 in state ERROR and as soon as a fix
\* left the state as it was, and runs neither restore more than once.
C28_DevTerminates == <>Exited /\ [](ExitsAsChecked)

C28_Witness ==
    /\ dpc = "exit0"
    /\ drestores = [scripts |-> 1, db |-> 1]
    /\ applied # ref.applied

----------------------------------------------------------------------------
\* Properties of a save that fails

\* The call has ended with the error of the connection.
Failed == pc = "done" /\ err = "sqlite3.Error"

\* The error reaches the caller at once, and what was written stays.
FailedAtOnce ==
    Failed =>
        /\ stack = <<>>
        /\ result = None
        /\ \A i \in DOMAIN log :
              log[i].rows = 1 => log[i].id \in DOMAIN db[log[i].model]

\* The step in which the statement fails, and every step after it, writes
\* nothing and takes nothing back.
NoWriteNoRollback ==
    (err = "sqlite3.Error" \/ err' = "sqlite3.Error") => UNCHANGED <<db, log>>

\* C29: when a statement fails in the middle of save(row, deep=True) the
\* error reaches the caller at once, the call issues no further write, and
\* nothing is rolled back: the rows written earlier in the call stay written.
C29_FailureLeavesEarlierWrites == [](FailedAtOnce) /\ [][NoWriteNoRollback]_vars

C29_Witness ==
    /\ Failed
    /\ deep
    /\ \E i \in DOMAIN log :
          /\ log[i].op = "insert"
          /\ log[i].id \in DOMAIN db[log[i].model]

----------------------------------------------------------------------------
\* Properties of a registration that fails

\* The errors of the structure of a model.
StructuralErrors ==
    {"InvalidIdentifierFieldError", "InvalidForeignKeyUnionError",
     "NonTableForeignKeyError", "AmbiguousForwardReferenceError"}

\* The metadata satisfies what registration checks.
Sound(m) ==
    /\ m.fields = decl[m.type]
    /\ \A j \in DOMAIN m.fields :
          /\ m.fields[j][1] = "id" => j = 1 /\ m.fields[j][2] = "int|None"
          /\ m.fields[j][2] \notin {"Employee|int", "Employee|int|None"}
          /\ (m.kind = "table" /\ m.specs[j].role = "forward-reference") =>
                \E r \in DOMAIN _meta :
                    /\ r \in unwrap_optional_type(m.fields[j][2])[2]
                    /\ _meta[r].kind = "table"
    /\ ~(\E i \in DOMAIN m.fields, j \in DOMAIN m.fields :
            m.fields[i][1] = "lead" /\ m.fields[j][1] = "lead_developer")

====
